---- MODULE Spec2Model ----
(***************************************************************************)
(* A model of pylibnidaqmx's utility layer (nidaqmx/utils.py):             *)
(*   - CHK, the status-code handler with its growing-buffer lookup loop,   *)
(*   - make_pattern, the channel-name pattern compressor,                  *)
(* and of Task (nidaqmx/task.py): event registration, the channel type,   *)
(* the pause trigger, clear, _reshape_data, and the read methods of        *)
(* nidaqmx/analog.py and nidaqmx/digital.py.                               *)
(* Strings are sequences of one-character strings, so that splitting,      *)
(* digit parsing and number formatting are computed and not assumed.       *)
(***************************************************************************)
EXTENDS Integers, Sequences, FiniteSets, TLC

VARIABLES
    chk_pc,       \* position inside CHK: idle, while, ext, gen, after, ret, done;
                  \* finished once the wrapping Task method is left
    return_code,  \* CHK's argument
    buf_size,     \* capacity of the lookup buffer
    buf,          \* "unbound" before the first create_string_buffer, else "bound"
    r,            \* <<status>> of the last lookup that returned; <<>> while unbound
    outcome,      \* "none" | "returned" | "raised"
    retval,       \* <<value>> once CHK has returned, else <<>>
    exc,          \* the exception CHK raised
    stderr,       \* the diagnostics written to sys.stderr, in order
    lookups,      \* the lookup calls made so far: [fn, cap, res]
    success_status, \* <<bool>> once the wrapping Task method has returned, else <<>>
    paths,        \* make_pattern's argument
    set_order,    \* the iteration order of list(set) in this interpreter
    mp_pc,        \* "build" while the argument is assembled, "called" afterwards
    result,       \* what make_pattern(paths) produced
    channel_type, \* Task.channel_type
    register_every_n_samples_event_cache,  \* Task._register_every_n_samples_event_cache
    register_done_event_cache,             \* Task._register_done_event_cache
    register_signal_event_cache,           \* Task._register_signal_event_cache
    registered,   \* the callback the driver holds, by kind of event
    last_call,    \* the last Task method called: its arguments, the driver calls
                  \* it issued, and how it ended
    pause_trigger_type,  \* Task._pause_trigger_type
    value,        \* the task handle, TaskHandle.value
    clear_task_calls,    \* the statuses DAQmxClearTask returned, one per call issued
    warned,       \* the statuses warnings.warn was called for
    number_of_channels,  \* what get_number_of_channels() returns
    samples_per_channel, \* the samples per channel asked of read
    layout,       \* fill_mode of read, layout of _reshape_data
    shape,        \* the shape of the array given to _reshape_data
    data_pc,      \* "args" until a method of the data path was called, "called" after
    returned      \* what the methods of the data path returned

chk_vars == <<chk_pc, return_code, buf_size, buf, r, outcome, retval, exc, stderr, lookups,
              success_status>>
mp_vars == <<paths, set_order, mp_pc, result>>
task_vars == <<channel_type, register_every_n_samples_event_cache,
               register_done_event_cache, register_signal_event_cache, registered,
               last_call>>
handle_vars == <<pause_trigger_type, value, clear_task_calls, warned>>
data_vars == <<number_of_channels, samples_per_channel, layout, shape, data_pc, returned>>
vars == <<chk_pc, return_code, buf_size, buf, r, outcome, retval, exc, stderr, lookups,
          success_status, paths, set_order, mp_pc, result,
          channel_type, register_every_n_samples_event_cache,
          register_done_event_cache, register_signal_event_cache, registered, last_call,
          pause_trigger_type, value, clear_task_calls, warned,
          number_of_channels, samples_per_channel, layout, shape, data_pc, returned>>

None == "None"

\* channel_type = None: a channel type is a string of two characters, None is the empty one
NoChannelType == <<>>

\* c_func = None, the NULL callback: a callback wrapper is the wrapped function
\* and the channel type whose CFUNCTYPE wraps it
NULL == [type |-> NoChannelType, func |-> None]

\* the driver of a new task holds no callback
NothingRegistered == [every_n |-> NULL, done |-> NULL, signal |-> NULL]

\* the value of last_call before any Task method was called
NoCall == [op |-> "none", func |-> None, signal |-> None, arg |-> None, before |-> NULL,
           calls |-> <<>>, exc |-> "none", ret |-> <<>>]

\* the value of returned before any method of the data path was called
NothingReturned == [op |-> "none", exc |-> "none", data |-> <<>>, samples |-> 0,
                    samples_read |-> 0]

\* What a make_pattern call can produce: a string, None, or an exception
StrResult(s) == [kind |-> "str", val |-> s]
NoneResult == [kind |-> "None", val |-> <<>>]
Raised(e) == [kind |-> e, val |-> <<>>]

(***************************************************************************)
(* CHK                                                                     *)
(***************************************************************************)

\* constants.py: the first buffer capacity
default_buf_size == 3000

\* utils.py line 24: the loop runs while buf_size is below this
max_buf_size == 1000000

\* The codes the vendor header names (loader.py fills error_map from its
\* DAQmxError... and DAQmxWarning... defines); DAQmxSuccess is not among them.
KnownCodes == {-200088, 200010}

error_map == [c \in KnownCodes |-> <<"name", c>>]

\* error_map.get(code, code)
error_map_get(code) == IF code \in DOMAIN error_map THEN error_map[code] ELSE <<"int", code>>

\* The status codes CHK is called with: success, known and unknown errors and warnings.
Codes == {-200088, -1, 0, 1, 200010}

\* What a lookup function can do: return a status, or raise RuntimeError with
\* the 'Buffer is too small to fit the string' text or with another text.
LookupStatus == {-1, 0, 1}
LookupResults == [kind : {"returns"}, status : LookupStatus]
                   \cup {[kind |-> "raises", status |-> "too_small"],
                         [kind |-> "raises", status |-> "other"]}

\* The identification a message carries: <<"name", c>> for the symbolic name
\* of code c, <<"int", c>> for the raw integer, NoIdent for neither
NoIdent == <<"none", 0>>

\* What CHK can tell about a lookup's result: the truth of 'r != 0', or the exception text
ResultClass(res) ==
    IF res.kind = "raises" THEN res.status
    ELSE IF res.status # 0 THEN "nonzero" ELSE "zero"

NoExc == [type |-> None, origin |-> None, carries |-> {}, ident |-> NoIdent]

\* CHK_Enter with the success test inverted
CHK_Enter_inverted ==
    /\ chk_pc = "idle"
    /\ IF return_code # 0
         THEN /\ chk_pc' = "ret"
              /\ UNCHANGED buf_size
         ELSE /\ buf_size' = default_buf_size
              /\ chk_pc' = "while"
    /\ UNCHANGED <<return_code, buf, r, outcome, retval, exc, stderr, lookups>>
    /\ UNCHANGED <<success_status, mp_vars, task_vars, handle_vars, data_vars>>

\* def CHK(return_code, funcname, *args): the test of line 20
CHK_Enter ==
    /\ chk_pc = "idle"
    /\ IF return_code = 0
         THEN /\ chk_pc' = "ret"
              /\ UNCHANGED buf_size
         ELSE /\ buf_size' = default_buf_size
              /\ chk_pc' = "while"
    /\ UNCHANGED <<return_code, buf, r, outcome, retval, exc, stderr, lookups>>
    /\ UNCHANGED <<success_status, mp_vars, task_vars, handle_vars, data_vars>>

\* CHK_While with the loop bound doubled
CHK_While_bound_doubled ==
    /\ chk_pc = "while"
    /\ IF buf_size < 2 * max_buf_size
         THEN /\ buf' = "bound"
              /\ chk_pc' = "ext"
         ELSE /\ chk_pc' = "after"
              /\ UNCHANGED buf
    /\ UNCHANGED <<return_code, buf_size, r, outcome, retval, exc, stderr, lookups>>
    /\ UNCHANGED <<success_status, mp_vars, task_vars, handle_vars, data_vars>>

\* while buf_size < 1000000: buf = create_string_buffer(...)
CHK_While ==
    /\ chk_pc = "while"
    /\ IF buf_size < max_buf_size
         THEN /\ buf' = "bound"
              /\ chk_pc' = "ext"
         ELSE /\ chk_pc' = "after"
              /\ UNCHANGED buf
    /\ UNCHANGED <<return_code, buf_size, r, outcome, retval, exc, stderr, lookups>>
    /\ UNCHANGED <<success_status, mp_vars, task_vars, handle_vars, data_vars>>

\* CHK_Except retrying after every RuntimeError
CHK_Except_retry_all(res) ==
    /\ buf_size' = buf_size * 2
    /\ chk_pc' = "while"
    /\ UNCHANGED <<outcome, exc>>

\* the except clause of lines 33-37, shared by both lookups
CHK_Except(res) ==
    IF res.status = "too_small"
      THEN /\ buf_size' = buf_size * 2
           /\ chk_pc' = "while"
           /\ UNCHANGED <<outcome, exc>>
      ELSE /\ outcome' = "raised"
           /\ exc' = [type |-> "NIDAQmxRuntimeError", origin |-> "lookup",
                      carries |-> {"msg"}, ident |-> NoIdent]
           /\ chk_pc' = "done"
           /\ UNCHANGED buf_size

\* CHK_ExtendedLookup followed by the generic lookup whatever it returned
CHK_ExtendedLookup_always_generic(res) ==
    /\ chk_pc = "ext"
    /\ lookups' = Append(lookups, [fn |-> "DAQmxGetExtendedErrorInfo", cap |-> buf_size, res |-> ResultClass(res)])
    /\ IF res.kind = "returns"
         THEN /\ r' = <<res.status>>
              /\ chk_pc' = "gen"
              /\ UNCHANGED <<buf_size, outcome, exc>>
         ELSE /\ CHK_Except(res)
              /\ UNCHANGED r
    /\ UNCHANGED <<return_code, buf, retval, stderr>>
    /\ UNCHANGED <<success_status, mp_vars, task_vars, handle_vars, data_vars>>

\* r = libnidaqmx.DAQmxGetExtendedErrorInfo(byref(buf), buf_size)
CHK_ExtendedLookup(res) ==
    /\ chk_pc = "ext"
    /\ lookups' = Append(lookups, [fn |-> "DAQmxGetExtendedErrorInfo", cap |-> buf_size, res |-> ResultClass(res)])
    /\ IF res.kind = "returns"
         THEN /\ r' = <<res.status>>
              /\ chk_pc' = IF res.status # 0 THEN "gen" ELSE "after"
              /\ UNCHANGED <<buf_size, outcome, exc>>
         ELSE /\ CHK_Except(res)
              /\ UNCHANGED r
    /\ UNCHANGED <<return_code, buf, retval, stderr>>
    /\ UNCHANGED <<success_status, mp_vars, task_vars, handle_vars, data_vars>>

\* r = libnidaqmx.DAQmxGetErrorString(return_code, byref(buf), buf_size)
CHK_GenericLookup(res) ==
    /\ chk_pc = "gen"
    /\ lookups' = Append(lookups, [fn |-> "DAQmxGetErrorString", cap |-> buf_size, res |-> ResultClass(res)])
    /\ IF res.kind = "returns"
         THEN /\ r' = <<res.status>>
              /\ chk_pc' = "after"
              /\ UNCHANGED <<buf_size, outcome, exc>>
         ELSE /\ CHK_Except(res)
              /\ UNCHANGED r
    /\ UNCHANGED <<return_code, buf, retval, stderr>>
    /\ UNCHANGED <<success_status, mp_vars, task_vars, handle_vars, data_vars>>

\* lines 40-56: raise or warn, by the lookup status r and the sign of return_code
CHK_Dispatch ==
    /\ chk_pc = "after"
    /\ IF r = <<>>
         THEN \* 'if r:' reads a local that no lookup ever assigned
              /\ outcome' = "raised"
              /\ exc' = [type |-> "UnboundLocalError", origin |-> "interpreter",
                         carries |-> {}, ident |-> NoIdent]
              /\ chk_pc' = "done"
              /\ UNCHANGED stderr
         ELSE IF r[1] # 0
           THEN IF return_code < 0
                  THEN /\ outcome' = "raised"
                       /\ exc' = IF return_code \in DOMAIN error_map
                                   THEN [type |-> "NIDAQmxRuntimeError", origin |-> "driver",
                                         carries |-> {"funcname", "args", "name", "code", "buf"},
                                         ident |-> error_map[return_code]]
                                   ELSE [type |-> "KeyError", origin |-> "interpreter",
                                         carries |-> {"key"}, ident |-> <<"int", return_code>>]
                       /\ chk_pc' = "done"
                       /\ UNCHANGED stderr
                  ELSE /\ stderr' = Append(stderr, [carries |-> {"funcname", "args", "name"},
                                                    ident |-> error_map_get(return_code)])
                       /\ chk_pc' = "ret"
                       /\ UNCHANGED <<outcome, exc>>
           ELSE IF return_code < 0
                  THEN /\ outcome' = "raised"
                       /\ exc' = [type |-> "NIDAQmxRuntimeError", origin |-> "driver",
                                  carries |-> {"funcname", "args", "text"}, ident |-> NoIdent]
                       /\ chk_pc' = "done"
                       /\ UNCHANGED stderr
                  ELSE /\ stderr' = Append(stderr, [carries |-> {"funcname", "args", "text"},
                                                    ident |-> NoIdent])
                       /\ chk_pc' = "ret"
                       /\ UNCHANGED <<outcome, exc>>
    /\ UNCHANGED <<return_code, buf_size, buf, r, retval, lookups>>
    /\ UNCHANGED <<success_status, mp_vars, task_vars, handle_vars, data_vars>>

\* return return_code
CHK_Return ==
    /\ chk_pc = "ret"
    /\ outcome' = "returned"
    /\ retval' = <<return_code>>
    /\ chk_pc' = "done"
    /\ UNCHANGED <<return_code, buf_size, buf, r, exc, stderr, lookups>>
    /\ UNCHANGED <<success_status, mp_vars, task_vars, handle_vars, data_vars>>

\* return CALL('StartTask', self) == 0, where CALL returns what CHK returned
\* and an exception of CHK leaves the method
Task_start_Return ==
    /\ chk_pc = "done"
    /\ IF outcome = "returned"
          THEN success_status' = <<retval[1] = 0>>
          ELSE UNCHANGED success_status
    /\ chk_pc' = "finished"
    /\ UNCHANGED <<return_code, buf_size, buf, r, outcome, retval, exc, stderr, lookups>>
    /\ UNCHANGED <<mp_vars, task_vars, handle_vars, data_vars>>

InitCHK ==
    /\ chk_pc = "idle"
    /\ return_code \in Codes
    /\ buf_size = 0
    /\ buf = "unbound"
    /\ r = <<>>
    /\ outcome = "none"
    /\ retval = <<>>
    /\ exc = NoExc
    /\ stderr = <<>>
    /\ lookups = <<>>
    /\ paths = <<>>
    /\ set_order = "asc"
    /\ mp_pc = "build"
    /\ result = NoneResult
    /\ success_status = <<>>
    /\ channel_type = NoChannelType
    /\ register_every_n_samples_event_cache = NULL
    /\ register_done_event_cache = NULL
    /\ register_signal_event_cache = NULL
    /\ registered = NothingRegistered
    /\ last_call = NoCall
    /\ pause_trigger_type = None
    /\ value = 1
    /\ clear_task_calls = <<>>
    /\ warned = <<>>
    /\ number_of_channels = 1
    /\ samples_per_channel = 0
    /\ layout = "group_by_scan_number"
    /\ shape = <<0>>
    /\ data_pc = "args"
    /\ returned = NothingReturned

NextCHK ==
    \/ CHK_Enter
    \/ CHK_While
    \/ \E res \in LookupResults : CHK_ExtendedLookup(res)
    \/ \E res \in LookupResults : CHK_GenericLookup(res)
    \/ CHK_Dispatch
    \/ CHK_Return
    \/ Task_start_Return

SpecCHK == InitCHK /\ [][NextCHK]_vars

\* CHK is straight-line code around calls that return or raise: a step that
\* can be taken is taken
FairSpecCHK == SpecCHK /\ WF_vars(NextCHK)

(***************************************************************************)
(* Strings: sequences of one-character strings                             *)
(***************************************************************************)

Digits == <<"0", "1", "2", "3", "4", "5", "6", "7", "8", "9">>

IsDigit(c) == \E d \in 1..10 : Digits[d] = c

\* the value of a decimal digit
DigitVal(c) == (CHOOSE d \in 1..10 : Digits[d] = c) - 1

\* ord(c) for the characters that occur in channel names and patterns
Ord(c) ==
    CASE c = "," -> 44
      [] c = "/" -> 47
      [] IsDigit(c) -> 48 + DigitVal(c)
      [] c = ":" -> 58
      [] c = "D" -> 68
      [] c = "E" -> 69
      [] c = "a" -> 97
      [] c = "b" -> 98
      [] c = "p" -> 112
      [] c = "{" -> 123
      [] c = "}" -> 125

Range(s) == {s[i] : i \in 1..Len(s)}

MinOf(a, b) == IF a < b THEN a ELSE b

\* a < b for Python strings: lexicographic by code point, a proper prefix first
StrLess(a, b) ==
    \/ \E i \in 1..MinOf(Len(a), Len(b)) :
          /\ \A j \in 1..(i - 1) : a[j] = b[j]
          /\ Ord(a[i]) < Ord(b[i])
    \/ /\ Len(a) < Len(b)
       /\ \A j \in 1..Len(a) : a[j] = b[j]

RECURSIVE SortedStrs(_)
\* sorted(S) for a set of strings
SortedStrs(S) ==
    IF S = {} THEN <<>>
    ELSE LET m == CHOOSE x \in S : \A y \in S : x = y \/ StrLess(x, y)
         IN  <<m>> \o SortedStrs(S \ {m})

Reverse(s) == [i \in 1..Len(s) |-> s[Len(s) + 1 - i]]

RECURSIVE Join(_, _)
\* sep.join(parts)
Join(sep, parts) ==
    IF parts = <<>> THEN <<>>
    ELSE IF Len(parts) = 1 THEN parts[1]
    ELSE parts[1] \o sep \o Join(sep, Tail(parts))

RECURSIVE IntOf(_)
\* int(s) for a string of decimal digits
IntOf(s) ==
    IF Len(s) = 1 THEN DigitVal(s[1])
    ELSE 10 * IntOf(SubSeq(s, 1, Len(s) - 1)) + DigitVal(s[Len(s)])

\* int(s) raises ValueError unless s is a non-empty run of digits
IntParses(s) == s # <<>> /\ \A i \in 1..Len(s) : IsDigit(s[i])

RECURSIVE StrOf(_)
\* str(n) / '%s' % n for a non-negative integer
StrOf(n) ==
    IF n < 10 THEN <<Digits[n + 1]>>
    ELSE StrOf(n \div 10) \o <<Digits[(n % 10) + 1]>>

(***************************************************************************)
(* make_pattern                                                            *)
(***************************************************************************)

\* if path.startswith('/'): path = path[1:]
StripSlash(path) ==
    IF path # <<>> /\ path[1] = "/" THEN Tail(path) ELSE path

\* Split1 leaving the separator at the head of the remainder
Split1_keeps_slash(path) ==
    IF "/" \in Range(path)
      THEN LET i == CHOOSE k \in 1..Len(path) :
                       path[k] = "/" /\ \A j \in 1..(k - 1) : path[j] # "/"
           IN  <<SubSeq(path, 1, i - 1), SubSeq(path, i, Len(path))>>
      ELSE <<path>>

\* path.split('/', 1)
Split1(path) ==
    IF "/" \in Range(path)
      THEN LET i == CHOOSE k \in 1..Len(path) :
                       path[k] = "/" /\ \A j \in 1..(k - 1) : path[j] # "/"
           IN  <<SubSeq(path, 1, i - 1), SubSeq(path, i + 1, Len(path))>>
      ELSE <<path>>

\* lines 99-105: cut a bare word before its first digit
SplitWord(word) ==
    LET i == IF \E k \in 1..Len(word) : IsDigit(word[k])
               THEN CHOOSE k \in 1..Len(word) :
                        IsDigit(word[k]) /\ \A j \in 1..(k - 1) : ~IsDigit(word[j])
               ELSE Len(word) + 1
    IN  <<SubSeq(word, 1, i - 1), SubSeq(word, i, Len(word))>>

\* AddRemainder starting a new set for every path
AddRemainder_fresh_set(patterns, key, rem) ==
    [k \in DOMAIN patterns \cup {key} |-> IF k = key THEN {rem} ELSE patterns[k]]

\* l.update(splitted[1:]) on patterns[key], created when absent
AddRemainder(patterns, key, rem) ==
    IF key \in DOMAIN patterns
      THEN [patterns EXCEPT ![key] = @ \cup {rem}]
      ELSE [k \in DOMAIN patterns \cup {key} |->
               IF k = key THEN {rem} ELSE patterns[k]]

\* one iteration of the loop of lines 90-109 on the loop state g
GroupStep(g, rawpath) ==
    LET splitted == Split1(StripSlash(rawpath))
    IN  IF ~g.ok THEN g
        ELSE IF Len(splitted) = 1
          THEN IF DOMAIN g.patterns # {} /\ ~g.flag
                 THEN [g EXCEPT !.ok = FALSE]
                 ELSE LET sw == SplitWord(splitted[1])
                      IN  [patterns |-> AddRemainder(g.patterns, sw[1], sw[2]),
                           flag |-> TRUE, ok |-> TRUE]
          ELSE [g EXCEPT !.patterns = AddRemainder(g.patterns, splitted[1], splitted[2])]

RECURSIVE GroupFrom(_, _)
GroupFrom(g, ps) ==
    IF ps = <<>> THEN g ELSE GroupFrom(GroupStep(g, Head(ps)), Tail(ps))

\* lines 88-109: patterns and flag after the loop; ok is FALSE when the assert failed
Group(ps) == GroupFrom([patterns |-> <<>>, flag |-> FALSE, ok |-> TRUE], ps)

\* list(patterns[prefix]): the set in the interpreter's iteration order
ListOfSet(S, ord) == IF ord = "asc" THEN SortedStrs(S) ELSE Reverse(SortedStrs(S))

\* SortedInts sorting the digit strings as text before converting them
SortedInts_as_text(lst) ==
    LET txt == SortedStrs(Range(lst)) IN [i \in 1..Len(txt) |-> IntOf(txt[i])]

RECURSIVE SortedInts(_)
\* sorted(int(i) for i in lst), lst given as a sequence of digit strings
SortedInts(lst) ==
    IF lst = <<>> THEN <<>>
    ELSE LET k == CHOOSE i \in 1..Len(lst) :
                      \A j \in 1..Len(lst) : IntOf(lst[i]) <= IntOf(lst[j])
             rest == [i \in 1..(Len(lst) - 1) |-> IF i < k THEN lst[i] ELSE lst[i + 1]]
         IN  <<IntOf(lst[k])>> \o SortedInts(rest)

\* slst == range(slst[0], slst[-1] + 1), a list comparison in Python 2
IsRange(slst) ==
    /\ Len(slst) = slst[Len(slst)] + 1 - slst[1]
    /\ \A i \in 1..Len(slst) : slst[i] = slst[1] + i - 1

\* lines 134-141: the branch for the empty prefix
NumericPart(lst) ==
    IF \E i \in 1..Len(lst) : ~IntParses(lst[i]) THEN Raised("ValueError")
    ELSE LET slst == SortedInts(lst)
         IN  IF Len(slst) = 1 THEN StrResult(StrOf(slst[1]))
             ELSE IF IsRange(slst)
               THEN StrResult(StrOf(slst[1]) \o <<":">> \o StrOf(slst[Len(slst)]))
               ELSE NoneResult

\* WithPrefix putting the separator in every case
WithPrefix_always_slash(flag, prefix, x) == prefix \o <<"/">> \o x

\* prefix + x when the call saw bare tokens, prefix + '/' + x otherwise
WithPrefix(flag, prefix, x) ==
    IF flag THEN prefix \o x ELSE prefix \o <<"/">> \o x

\* the number of '{' minus the number of '}' before position i
BraceDepth(s, i) ==
    Cardinality({j \in 1..(i - 1) : s[j] = "{"}) - Cardinality({j \in 1..(i - 1) : s[j] = "}"})

\* the commas of s that stand outside every brace pair
TopLevelCommas(s) == {j \in 1..Len(s) : s[j] = "," /\ BraceDepth(s, j) = 0}

\* Braced looking only at the sub-pattern's own level
Braced_own_level(subpattern) ==
    IF TopLevelCommas(subpattern) # {} THEN <<"{">> \o subpattern \o <<"}">> ELSE subpattern

\* lines 127-128: brace a sub-pattern that contains a comma
Braced(subpattern) ==
    IF "," \in Range(subpattern) THEN <<"{">> \o subpattern \o <<"}">> ELSE subpattern

\* line 123: the fallback of the top-level call
Fallback(ps) == StrResult(Join(<<",">>, ps))

\* SortedKeys in descending order
SortedKeys_descending(patterns) == Reverse(SortedStrs(DOMAIN patterns))

\* sorted(patterns.keys())
SortedKeys(patterns) == SortedStrs(DOMAIN patterns)

RECURSIVE make_pattern(_, _, _), Emit(_, _, _, _, _, _)

\* the loop of lines 111-144 over the remaining keys, rr being the list r
Emit(keys, g, ps, main, ord, rr) ==
    IF keys = <<>> THEN StrResult(Join(<<",">>, rr))
    ELSE
      LET prefix == Head(keys)
          lst == ListOfSet(g.patterns[prefix], ord)
      IN  IF Len(lst) = 1
            THEN Emit(Tail(keys), g, ps, main, ord,
                      Append(rr, WithPrefix(g.flag, prefix, lst[1])))
          ELSE IF lst # <<>>
            THEN IF prefix # <<>>
                   THEN LET sub == make_pattern(lst, FALSE, ord)
                        IN  IF sub.kind = "None"
                              THEN IF main THEN Fallback(ps) ELSE NoneResult
                            ELSE IF sub.kind # "str" THEN sub
                            ELSE Emit(Tail(keys), g, ps, main, ord,
                                      Append(rr, WithPrefix(g.flag, prefix, Braced(sub.val))))
                   ELSE LET num == NumericPart(lst)
                        IN  IF num.kind # "str" THEN num
                            ELSE Emit(Tail(keys), g, ps, main, ord, Append(rr, num.val))
          ELSE Emit(Tail(keys), g, ps, main, ord, Append(rr, prefix))

\* the key under which the loop of lines 90-109 files a path
KeyOf(rawpath) ==
    LET splitted == Split1(StripSlash(rawpath))
    IN  IF Len(splitted) = 1 THEN SplitWord(splitted[1])[1] ELSE splitted[1]

RECURSIVE FirstSeenKeys(_, _)
\* the keys of patterns in the order the paths introduce them
FirstSeenKeys(ps, seen) ==
    IF ps = <<>> THEN <<>>
    ELSE IF KeyOf(Head(ps)) \in seen THEN FirstSeenKeys(Tail(ps), seen)
    ELSE <<KeyOf(Head(ps))>> \o FirstSeenKeys(Tail(ps), seen \cup {KeyOf(Head(ps))})

\* make_pattern iterating patterns.keys() without sorted()
make_pattern_unsorted(ps, main, ord) ==
    LET g == Group(ps)
    IN  IF ~g.ok THEN Raised("AssertionError")
        ELSE Emit(FirstSeenKeys(ps, {}), g, ps, main, ord, <<>>)

\* def make_pattern(paths, _main=True), ord being the interpreter's set order
make_pattern(ps, main, ord) ==
    LET g == Group(ps)
    IN  IF ~g.ok THEN Raised("AssertionError")
        ELSE Emit(SortedKeys(g.patterns), g, ps, main, ord, <<>>)

\* The channel names the compressor is exercised with
PathUniverse ==
    { <<"D", "/", "a", "1">>,
      <<"D", "/", "a", "2">>,
      <<"D", "/", "a", "3">>,
      <<"D", "/", "a", "0", "2">>,
      <<"D", "/", "b", "1">>,
      <<"E", "/", "a", "9">>,
      <<"E", "/", "a", "1", "0">>,
      <<"E", "/", "p", "/", "a", "1">>,
      <<"E", "/", "p", "/", "b", "1">>,
      <<"1">>,
      <<"3">> }

\* the longest argument list
MaxPaths == 3

\* the caller builds its list: paths += [p]
MP_Append(p) ==
    /\ mp_pc = "build"
    /\ Len(paths) < MaxPaths
    /\ paths' = Append(paths, p)
    /\ UNCHANGED <<set_order, mp_pc, result>>
    /\ UNCHANGED <<chk_vars, task_vars, handle_vars, data_vars>>

\* result = make_pattern(paths)
MP_Call ==
    /\ mp_pc = "build"
    /\ result' = make_pattern(paths, TRUE, set_order)
    /\ mp_pc' = "called"
    /\ UNCHANGED <<paths, set_order>>
    /\ UNCHANGED <<chk_vars, task_vars, handle_vars, data_vars>>

InitMP ==
    /\ chk_pc = "idle"
    /\ return_code = 0
    /\ buf_size = 0
    /\ buf = "unbound"
    /\ r = <<>>
    /\ outcome = "none"
    /\ retval = <<>>
    /\ exc = NoExc
    /\ stderr = <<>>
    /\ lookups = <<>>
    /\ paths = <<>>
    /\ set_order \in {"asc", "desc"}
    /\ mp_pc = "build"
    /\ result = NoneResult
    /\ success_status = <<>>
    /\ channel_type = NoChannelType
    /\ register_every_n_samples_event_cache = NULL
    /\ register_done_event_cache = NULL
    /\ register_signal_event_cache = NULL
    /\ registered = NothingRegistered
    /\ last_call = NoCall
    /\ pause_trigger_type = None
    /\ value = 1
    /\ clear_task_calls = <<>>
    /\ warned = <<>>
    /\ number_of_channels = 1
    /\ samples_per_channel = 0
    /\ layout = "group_by_scan_number"
    /\ shape = <<0>>
    /\ data_pc = "args"
    /\ returned = NothingReturned

NextMP ==
    \/ \E p \in PathUniverse : MP_Append(p)
    \/ MP_Call

SpecMP == InitMP /\ [][NextMP]_vars

(***************************************************************************)
(* Task: channel type and event registration                               *)
(***************************************************************************)

\* the channel types _set_channel_type accepts
ChannelTypes == {<<"A", "I">>, <<"A", "O">>, <<"D", "I">>, <<"D", "O">>,
                 <<"C", "I">>, <<"C", "O">>}

\* the property channel_io_type: 'input' if t[1] == 'I' else 'output'
channel_io_type ==
    IF channel_type = NoChannelType THEN "TypeError"
    ELSE IF channel_type[2] = "I" THEN "input" ELSE "output"

\* the functions a caller passes: f3(a, b, c), f3d(a, b, c=None) and
\* g3d likewise, f4(a, b, c, d) and g4 likewise
Callbacks == {"f3", "f3d", "g3d", "f4", "g4"}

\* inspect.getargspec(func): the number of named arguments and the defaults
\* (no defaults is the empty tuple here)
getargspec(func) ==
    CASE func = "f3" -> [nargs |-> 3, defaults |-> <<>>]
      [] func \in {"f3d", "g3d"} -> [nargs |-> 3, defaults |-> <<None>>]
      [] func \in {"f4", "g4"} -> [nargs |-> 4, defaults |-> <<>>]

\* the keys of signalID_map
signalID_map == {"sample_clock", "sample_complete", "change_detection", "counter_output"}

\* the signal names a caller passes
Signals == {"sample_clock", "no_such_signal"}

\* how CALL ends: it returns 0, it returns a positive code after a warning,
\* or CHK raises
CallOutcomes == {"zero", "warning", "raises"}

\* one call of a driver entry point through CALL
DriverCall(fn, c_func, o) == [fn |-> fn, c_func |-> c_func, outcome |-> o]

\* how a method ends: the exception that left it ("none" if it returned),
\* the cache it leaves, the driver calls it issued, and <<returned value>>
Ended(e, cache, calls, ret) == [exc |-> e, cache |-> cache, calls |-> calls, ret |-> ret]

\* self._register_..._cache = c_func; return CALL('Register...', ..., c_func, cb_data) == 0
RegisterTail(fn, c_func, calls, o) ==
    Ended(IF o = "raises" THEN "raised by CALL" ELSE "none",
          c_func,
          Append(calls, DriverCall(fn, c_func, o)),
          IF o = "raises" THEN <<>> ELSE <<o = "zero">>)

\* the EveryNSamples/Done/Signal EventCallback_map[self.channel_type](func)
Wrapper(func) == [type |-> channel_type, func |-> func]

\* the body of register_every_n_samples_event; o1 ends the CALL of the nested
\* unregistration, o2 the CALL of the method itself
every_n_samples_event(cache, func, o1, o2) ==
    LET fn == "DAQmxRegisterEveryNSamplesEvent"
    IN  IF channel_io_type = "TypeError" THEN Ended("TypeError", cache, <<>>, <<>>)
        ELSE IF func = None THEN RegisterTail(fn, NULL, <<>>, o2)
        ELSE LET un == IF cache # NULL THEN RegisterTail(fn, NULL, <<>>, o1)
                       ELSE Ended("none", cache, <<>>, <<>>)
             IN  IF un.exc # "none" THEN un
                 ELSE IF getargspec(func).nargs # 4
                        THEN Ended("ValueError", un.cache, un.calls, <<>>)
                 ELSE RegisterTail(fn, Wrapper(func), un.calls, o2)

\* the body of register_done_event
done_event(cache, func, o1, o2) ==
    LET fn == "DAQmxRegisterDoneEvent"
    IN  IF func = None THEN RegisterTail(fn, NULL, <<>>, o2)
        ELSE LET un == IF cache # NULL THEN RegisterTail(fn, NULL, <<>>, o1)
                       ELSE Ended("none", cache, <<>>, <<>>)
             IN  IF un.exc # "none" THEN un
                 ELSE IF getargspec(func).nargs # 3 \/ getargspec(func).defaults # <<None>>
                        THEN Ended("ValueError", un.cache, un.calls, <<>>)
                 ELSE IF channel_type \notin ChannelTypes
                        THEN Ended("KeyError", un.cache, un.calls, <<>>)
                 ELSE RegisterTail(fn, Wrapper(func), un.calls, o2)

\* the body of register_signal_event: the unregistration of a cached callback
\* calls self._register_signal_event, which no class defines
signal_event(cache, func, signal, o2) ==
    LET fn == "DAQmxRegisterSignalEvent"
    IN  IF signal \notin signalID_map THEN Ended("ValueError", cache, <<>>, <<>>)
        ELSE IF func = None THEN RegisterTail(fn, NULL, <<>>, o2)
        ELSE IF cache # NULL THEN Ended("AttributeError", cache, <<>>, <<>>)
        ELSE IF getargspec(func).nargs # 4 THEN Ended("ValueError", cache, <<>>, <<>>)
        ELSE IF channel_type \notin ChannelTypes THEN Ended("KeyError", cache, <<>>, <<>>)
        ELSE RegisterTail(fn, Wrapper(func), <<>>, o2)

\* the callback the driver holds after the calls: a Register* call that
\* returned (0 or a warning) replaced it, one that failed left it alone
RECURSIVE Held(_, _)
Held(held, calls) ==
    IF calls = <<>> THEN held
    ELSE Held(IF Head(calls).outcome = "raises" THEN held ELSE Head(calls).c_func,
              Tail(calls))

\* what a method leaves in last_call
CallRecord(op, func, signal, before, e) ==
    [op |-> op, func |-> func, signal |-> signal, arg |-> None, before |-> before,
     calls |-> e.calls, exc |-> e.exc, ret |-> e.ret]

\* what a method with one plain argument leaves in last_call
ArgRecord(op, arg, e) ==
    [CallRecord(op, None, None, NULL, e) EXCEPT !.arg = arg]

\* _set_channel_type assigning whatever it is given
set_channel_type_overwriting(t) ==
    /\ IF t \notin ChannelTypes
         THEN /\ UNCHANGED channel_type
              /\ last_call' = ArgRecord("_set_channel_type", t,
                                        Ended("AssertionError", NULL, <<>>, <<>>))
         ELSE /\ channel_type' = t
              /\ last_call' = ArgRecord("_set_channel_type", t,
                                        Ended("none", NULL, <<>>, <<None>>))
    /\ UNCHANGED <<register_every_n_samples_event_cache, register_done_event_cache,
                   register_signal_event_cache, registered>>
    /\ UNCHANGED <<chk_vars, mp_vars, handle_vars, data_vars>>

\* task._set_channel_type(t)
set_channel_type(t) ==
    /\ IF t \notin ChannelTypes
         THEN /\ UNCHANGED channel_type
              /\ last_call' = ArgRecord("_set_channel_type", t,
                                        Ended("AssertionError", NULL, <<>>, <<>>))
         ELSE IF channel_type = NoChannelType
         THEN /\ channel_type' = t
              /\ last_call' = ArgRecord("_set_channel_type", t,
                                        Ended("none", NULL, <<>>, <<None>>))
         ELSE /\ UNCHANGED channel_type
              /\ last_call' = ArgRecord("_set_channel_type", t,
                                        Ended(IF channel_type # t THEN "ValueError" ELSE "none",
                                              NULL, <<>>,
                                              IF channel_type # t THEN <<>> ELSE <<None>>))
    /\ UNCHANGED <<register_every_n_samples_event_cache, register_done_event_cache,
                   register_signal_event_cache, registered>>
    /\ UNCHANGED <<chk_vars, mp_vars, handle_vars, data_vars>>

\* task.register_every_n_samples_event(func)
register_every_n_samples_event(func, o1, o2) ==
    LET e == every_n_samples_event(register_every_n_samples_event_cache, func, o1, o2)
    IN  /\ (register_every_n_samples_event_cache = NULL \/ func = None) => o1 = "zero"
        /\ register_every_n_samples_event_cache' = e.cache
        /\ registered' = [registered EXCEPT !.every_n = Held(@, e.calls)]
        /\ last_call' = CallRecord("register_every_n_samples_event", func, None,
                                   register_every_n_samples_event_cache, e)
        /\ UNCHANGED <<channel_type, register_done_event_cache, register_signal_event_cache>>
        /\ UNCHANGED <<chk_vars, mp_vars, handle_vars, data_vars>>

\* task.register_done_event(func)
register_done_event(func, o1, o2) ==
    LET e == done_event(register_done_event_cache, func, o1, o2)
    IN  /\ (register_done_event_cache = NULL \/ func = None) => o1 = "zero"
        /\ register_done_event_cache' = e.cache
        /\ registered' = [registered EXCEPT !.done = Held(@, e.calls)]
        /\ last_call' = CallRecord("register_done_event", func, None,
                                   register_done_event_cache, e)
        /\ UNCHANGED <<channel_type, register_every_n_samples_event_cache,
                       register_signal_event_cache>>
        /\ UNCHANGED <<chk_vars, mp_vars, handle_vars, data_vars>>

\* task.register_signal_event(func, signal)
register_signal_event(func, signal, o2) ==
    LET e == signal_event(register_signal_event_cache, func, signal, o2)
    IN  /\ register_signal_event_cache' = e.cache
        /\ registered' = [registered EXCEPT !.signal = Held(@, e.calls)]
        /\ last_call' = CallRecord("register_signal_event", func, signal,
                                   register_signal_event_cache, e)
        /\ UNCHANGED <<channel_type, register_every_n_samples_event_cache,
                       register_done_event_cache>>
        /\ UNCHANGED <<chk_vars, mp_vars, handle_vars, data_vars>>

InitTask ==
    /\ chk_pc = "idle"
    /\ return_code = 0
    /\ buf_size = 0
    /\ buf = "unbound"
    /\ r = <<>>
    /\ outcome = "none"
    /\ retval = <<>>
    /\ exc = NoExc
    /\ stderr = <<>>
    /\ lookups = <<>>
    /\ success_status = <<>>
    /\ paths = <<>>
    /\ set_order = "asc"
    /\ mp_pc = "build"
    /\ result = NoneResult
    /\ channel_type = NoChannelType
    /\ register_every_n_samples_event_cache = NULL
    /\ register_done_event_cache = NULL
    /\ register_signal_event_cache = NULL
    /\ registered = NothingRegistered
    /\ last_call = NoCall
    /\ pause_trigger_type = None
    /\ value = 1
    /\ clear_task_calls = <<>>
    /\ warned = <<>>
    /\ number_of_channels = 1
    /\ samples_per_channel = 0
    /\ layout = "group_by_scan_number"
    /\ shape = <<0>>
    /\ data_pc = "args"
    /\ returned = NothingReturned

\* the channel types the channels of the registering task are created with,
\* and a string that is no channel type
TaskChannelTypes == {<<"A", "I">>, <<"D", "O">>, <<"X", "X">>}

NextTask ==
    \/ \E t \in TaskChannelTypes : set_channel_type(t)
    \/ \E func \in Callbacks \cup {None}, o1, o2 \in CallOutcomes :
          register_every_n_samples_event(func, o1, o2)
    \/ \E func \in Callbacks \cup {None}, o1, o2 \in CallOutcomes :
          register_done_event(func, o1, o2)
    \/ \E func \in Callbacks \cup {None}, signal \in Signals, o2 \in CallOutcomes :
          register_signal_event(func, signal, o2)

SpecTask == InitTask /\ [][NextTask]_vars

(***************************************************************************)
(* Task: the handle, the channel type and the pause trigger                *)
(***************************************************************************)

\* reading the property task.channel_io_type
get_channel_io_type ==
    /\ last_call' = ArgRecord("channel_io_type", None,
                              IF channel_io_type = "TypeError"
                                THEN Ended("TypeError", NULL, <<>>, <<>>)
                                ELSE Ended("none", NULL, <<>>, <<channel_io_type>>))
    /\ UNCHANGED <<channel_type, register_every_n_samples_event_cache,
                   register_done_event_cache, register_signal_event_cache, registered>>
    /\ UNCHANGED <<chk_vars, mp_vars, handle_vars, data_vars>>

\* the keys of trigger_type_map, None among them
trigger_type_map == {"digital_level", "analog_level", "analog_window", None}

\* the keys of the two routine_map dictionaries
routine_map == {"digital_level", "analog_level", "analog_window"}

\* routine_map[self._pause_trigger_type] of set_pause_trigger_source
SrcRoutine(type) ==
    CASE type = "digital_level" -> "DAQmxSetDigLvlPauseTrigSrc"
      [] type = "analog_level" -> "DAQmxSetAnlgLvlPauseTrigSrc"
      [] type = "analog_window" -> "DAQmxSetAnlgWinPauseTrigSrc"

\* routine_map[self._pause_trigger_type] of set_pause_trigger_when
WhenRoutine(type) ==
    CASE type = "digital_level" -> "DAQmxSetDigLvlPauseTrigWhen"
      [] type = "analog_level" -> "DAQmxSetAnlgLvlPauseTrigWhen"
      [] type = "analog_window" -> "DAQmxSetAnlgWinPauseTrigWhen"

\* the keys of type_when_map[self._pause_trigger_type]
type_when_map(type) ==
    CASE type = "digital_level" -> {"high", "low"}
      [] type = "analog_level" -> {"above", "below"}
      [] type = "analog_window" -> {"inside", "outside"}

\* the trigger types and the values of when a caller passes
TriggerTypes == trigger_type_map \cup {"no_such_type"}
Whens == {"high", "above", "inside", None}

\* return CALL(routine, ...) == 0
CallTail(fn, o) ==
    Ended(IF o = "raises" THEN "raised by CALL" ELSE "none", NULL,
          <<DriverCall(fn, NULL, o)>>,
          IF o = "raises" THEN <<>> ELSE <<o = "zero">>)

\* set_pause_trigger that records the type before it looks it up
set_pause_trigger_recording_first(trigger_type, o) ==
    /\ pause_trigger_type' = trigger_type
    /\ last_call' = ArgRecord("set_pause_trigger", trigger_type,
                              IF trigger_type \notin trigger_type_map
                                THEN Ended("ValueError", NULL, <<>>, <<>>)
                                ELSE CallTail("DAQmxSetPauseTrigType", o))
    /\ UNCHANGED <<channel_type, register_every_n_samples_event_cache,
                   register_done_event_cache, register_signal_event_cache, registered>>
    /\ UNCHANGED <<value, clear_task_calls, warned>>
    /\ UNCHANGED <<chk_vars, mp_vars, data_vars>>

\* task.set_pause_trigger(trigger_type)
set_pause_trigger(trigger_type, o) ==
    /\ IF trigger_type \notin trigger_type_map
         THEN /\ UNCHANGED pause_trigger_type
              /\ last_call' = ArgRecord("set_pause_trigger", trigger_type,
                                        Ended("ValueError", NULL, <<>>, <<>>))
         ELSE /\ pause_trigger_type' = trigger_type
              /\ last_call' = ArgRecord("set_pause_trigger", trigger_type,
                                        CallTail("DAQmxSetPauseTrigType", o))
    /\ UNCHANGED <<channel_type, register_every_n_samples_event_cache,
                   register_done_event_cache, register_signal_event_cache, registered>>
    /\ UNCHANGED <<value, clear_task_calls, warned>>
    /\ UNCHANGED <<chk_vars, mp_vars, data_vars>>

\* task.set_pause_trigger_source(source)
set_pause_trigger_source(o) ==
    /\ last_call' = ArgRecord("set_pause_trigger_source", None,
                              IF pause_trigger_type = None
                                THEN Ended("TypeError", NULL, <<>>, <<>>)
                              ELSE IF pause_trigger_type \notin routine_map
                                THEN Ended("ValueError", NULL, <<>>, <<>>)
                              ELSE CallTail(SrcRoutine(pause_trigger_type), o))
    /\ UNCHANGED <<channel_type, register_every_n_samples_event_cache,
                   register_done_event_cache, register_signal_event_cache, registered>>
    /\ UNCHANGED handle_vars
    /\ UNCHANGED <<chk_vars, mp_vars, data_vars>>

\* task.set_pause_trigger_when(when): it returns what CALL returned, the
\* status itself
set_pause_trigger_when(when, o) ==
    /\ last_call' = ArgRecord("set_pause_trigger_when", when,
                              IF pause_trigger_type = None
                                THEN Ended("TypeError", NULL, <<>>, <<>>)
                              ELSE IF pause_trigger_type \notin routine_map
                                THEN Ended("ValueError", NULL, <<>>, <<>>)
                              ELSE IF when \notin type_when_map(pause_trigger_type)
                                THEN Ended("ValueError", NULL, <<>>, <<>>)
                              ELSE [CallTail(WhenRoutine(pause_trigger_type), o)
                                      EXCEPT !.ret = IF o = "raises" THEN <<>> ELSE <<o>>])
    /\ UNCHANGED <<channel_type, register_every_n_samples_event_cache,
                   register_done_event_cache, register_signal_event_cache, registered>>
    /\ UNCHANGED handle_vars
    /\ UNCHANGED <<chk_vars, mp_vars, data_vars>>

\* the longest sequence of DAQmxClearTask calls followed
MaxClears == 2

\* the statuses DAQmxClearTask returns
ClearStatus == {-1, 0, 1}

\* task.clear(), and task.__del__, which is the same function
clear(status) ==
    /\ Len(clear_task_calls) < MaxClears
    /\ IF value # 0
         THEN /\ clear_task_calls' = Append(clear_task_calls, status)
              /\ warned' = IF status # 0 THEN Append(warned, status) ELSE warned
              /\ last_call' = ArgRecord("clear", None,
                                 Ended("none", NULL,
                                       <<DriverCall("DAQmxClearTask", NULL,
                                                    IF status = 0 THEN "zero" ELSE "warning")>>,
                                       <<None>>))
         ELSE /\ UNCHANGED <<clear_task_calls, warned>>
              /\ last_call' = ArgRecord("clear", None, Ended("none", NULL, <<>>, <<None>>))
    /\ UNCHANGED <<value, pause_trigger_type>>
    /\ UNCHANGED <<channel_type, register_every_n_samples_event_cache,
                   register_done_event_cache, register_signal_event_cache, registered>>
    /\ UNCHANGED <<chk_vars, mp_vars, data_vars>>

InitHandle ==
    /\ chk_pc = "idle"
    /\ return_code = 0
    /\ buf_size = 0
    /\ buf = "unbound"
    /\ r = <<>>
    /\ outcome = "none"
    /\ retval = <<>>
    /\ exc = NoExc
    /\ stderr = <<>>
    /\ lookups = <<>>
    /\ success_status = <<>>
    /\ paths = <<>>
    /\ set_order = "asc"
    /\ mp_pc = "build"
    /\ result = NoneResult
    /\ channel_type = NoChannelType
    /\ register_every_n_samples_event_cache = NULL
    /\ register_done_event_cache = NULL
    /\ register_signal_event_cache = NULL
    /\ registered = NothingRegistered
    /\ last_call = NoCall
    /\ pause_trigger_type = None
    /\ value \in {0, 1}
    /\ clear_task_calls = <<>>
    /\ warned = <<>>
    /\ number_of_channels = 1
    /\ samples_per_channel = 0
    /\ layout = "group_by_scan_number"
    /\ shape = <<0>>
    /\ data_pc = "args"
    /\ returned = NothingReturned

NextHandle ==
    \/ \E t \in ChannelTypes \cup {<<"X", "X">>} : set_channel_type(t)
    \/ get_channel_io_type
    \/ \E trigger_type \in TriggerTypes, o \in CallOutcomes : set_pause_trigger(trigger_type, o)
    \/ \E o \in CallOutcomes : set_pause_trigger_source(o)
    \/ \E when \in Whens, o \in CallOutcomes : set_pause_trigger_when(when, o)
    \/ \E status \in ClearStatus : clear(status)

SpecHandle == InitHandle /\ [][NextHandle]_vars

(***************************************************************************)
(* The data path: read and _reshape_data. An array is its shape.           *)
(***************************************************************************)

\* the largest channel count, sample count and length of a 1-D array drawn
MaxNumberOfChannels == 3
MaxSamples == 3
MaxElements == 6

\* data.size
RECURSIVE Size(_)
Size(sh) == IF sh = <<>> THEN 1 ELSE Head(sh) * Size(Tail(sh))

\* the smaller of two numbers
Min(a, b) == IF a < b THEN a ELSE b

\* data[:k], the first k rows
Rows(sh, k) == <<Min(k, sh[1]), sh[2]>>

\* data[:, :k], the first k columns
Columns(sh, k) == <<sh[1], Min(k, sh[2])>>

\* np.zeros of read: (samples_per_channel, number_of_channels) or the transpose
Zeros ==
    IF layout = "group_by_scan_number"
      THEN <<samples_per_channel, number_of_channels>>
      ELSE <<number_of_channels, samples_per_channel>>

\* what a method of the data path returned or raised
Returns(op, data, samples, n) ==
    [op |-> op, exc |-> "none", data |-> data, samples |-> samples, samples_read |-> n]
Raises(op, e, n) ==
    [op |-> op, exc |-> e, data |-> <<>>, samples |-> 0, samples_read |-> n]

\* AnalogInputTask.read(samples_per_channel, fill_mode=layout), the driver
\* reporting samples_read samples and CALL ending as o
AnalogInputTask_read(samples_read, o) ==
    /\ data_pc = "args"
    /\ samples_read <= samples_per_channel
    /\ returned' =
          IF o = "raises" THEN Raises("AnalogInputTask.read", "raised by CALL", samples_read)
          ELSE IF samples_per_channel < samples_read
            THEN Returns("AnalogInputTask.read",
                         IF layout = "group_by_scan_number"
                           THEN Rows(Zeros, samples_read) ELSE Columns(Zeros, samples_read),
                         0, samples_read)
          ELSE Returns("AnalogInputTask.read", Zeros, 0, samples_read)
    /\ data_pc' = "called"
    /\ UNCHANGED <<number_of_channels, samples_per_channel, layout, shape>>
    /\ UNCHANGED <<chk_vars, mp_vars, task_vars, handle_vars>>

\* DigitalTask.read(samples_per_channel, fill_mode=layout); the array is the
\* first of the two values it returns
DigitalTask_read(samples_read, o) ==
    /\ data_pc = "args"
    /\ samples_read <= samples_per_channel
    /\ returned' =
          IF o = "raises" THEN Raises("DigitalTask.read", "raised by CALL", samples_read)
          ELSE IF samples_read < samples_per_channel
            THEN Returns("DigitalTask.read",
                         IF layout = "group_by_scan_number"
                           THEN Rows(Zeros, samples_read) ELSE Columns(Zeros, samples_read),
                         0, samples_read)
          ELSE Returns("DigitalTask.read", Zeros, 0, samples_read)
    /\ data_pc' = "called"
    /\ UNCHANGED <<number_of_channels, samples_per_channel, layout, shape>>
    /\ UNCHANGED <<chk_vars, mp_vars, task_vars, handle_vars>>

\* reshape that takes any new shape
Reshape_unchecked(op, sh, newshape, samples) == Returns(op, newshape, samples, 0)

\* data.reshape(newshape): numpy refuses a shape of another size
Reshape(op, sh, newshape, samples) ==
    IF Size(sh) = Size(newshape) THEN Returns(op, newshape, samples, 0)
    ELSE Raises(op, "ValueError", 0)

\* the body of Task._reshape_data(data, layout) for data of shape sh
reshape_data(sh) ==
    LET op == "_reshape_data"
        c == number_of_channels
    IN  IF c = 0 THEN Raises(op, "ValueError", 0)
        ELSE IF Len(sh) = 1
          THEN IF c = 1
                 THEN IF layout = "group_by_scan_number"
                        THEN Reshape(op, sh, <<sh[1], 1>>, sh[1])
                        ELSE Reshape(op, sh, <<1, sh[1]>>, sh[1])
                 ELSE LET spc == Size(sh) \div c
                      IN  IF layout = "group_by_scan_number"
                            THEN Reshape(op, sh, <<spc, c>>, spc)
                            ELSE Reshape(op, sh, <<c, spc>>, spc)
        ELSE IF Len(sh) # 2 THEN Raises(op, "AssertionError", 0)
        ELSE IF layout = "group_by_scan_number"
          THEN IF sh[2] # c THEN Raises(op, "AssertionError", 0)
               ELSE Returns(op, sh, sh[1], 0)
          ELSE IF sh[1] # c THEN Raises(op, "AssertionError", 0)
               ELSE Returns(op, sh, sh[2], 0)

\* data, samples_per_channel = task._reshape_data(data, layout)
Task_reshape_data ==
    /\ data_pc = "args"
    /\ returned' = reshape_data(shape)
    /\ data_pc' = "called"
    /\ UNCHANGED <<number_of_channels, samples_per_channel, layout, shape>>
    /\ UNCHANGED <<chk_vars, mp_vars, task_vars, handle_vars>>

\* the shapes of the arrays a caller passes: 0-D, 1-D, 2-D and one 3-D
Shapes ==
    {<<>>} \cup {<<n>> : n \in 0..MaxElements}
           \cup {<<a, b>> : a \in 0..MaxSamples, b \in 0..MaxNumberOfChannels}
           \cup {<<a, b>> : a \in 0..MaxNumberOfChannels, b \in 0..MaxSamples}
           \cup {<<1, 1, 1>>}

InitData ==
    /\ chk_pc = "idle"
    /\ return_code = 0
    /\ buf_size = 0
    /\ buf = "unbound"
    /\ r = <<>>
    /\ outcome = "none"
    /\ retval = <<>>
    /\ exc = NoExc
    /\ stderr = <<>>
    /\ lookups = <<>>
    /\ success_status = <<>>
    /\ paths = <<>>
    /\ set_order = "asc"
    /\ mp_pc = "build"
    /\ result = NoneResult
    /\ channel_type = NoChannelType
    /\ register_every_n_samples_event_cache = NULL
    /\ register_done_event_cache = NULL
    /\ register_signal_event_cache = NULL
    /\ registered = NothingRegistered
    /\ last_call = NoCall
    /\ pause_trigger_type = None
    /\ value = 1
    /\ clear_task_calls = <<>>
    /\ warned = <<>>
    /\ number_of_channels \in 0..MaxNumberOfChannels
    /\ samples_per_channel \in 0..MaxSamples
    /\ layout \in {"group_by_scan_number", "group_by_channel"}
    /\ shape \in Shapes
    /\ data_pc = "args"
    /\ returned = NothingReturned

NextData ==
    \/ \E samples_read \in 0..MaxSamples, o \in CallOutcomes :
          AnalogInputTask_read(samples_read, o)
    \/ \E samples_read \in 0..MaxSamples, o \in CallOutcomes :
          DigitalTask_read(samples_read, o)
    \/ Task_reshape_data

SpecData == InitData /\ [][NextData]_vars

(***************************************************************************)
(* Claims about CHK                                                        *)
(***************************************************************************)

\* C1: CHK with return_code == 0 never raises, calls neither lookup function,
\* writes no diagnostic, and returns 0.
C1_ZeroPassesThrough ==
    return_code = 0 =>
        /\ outcome # "raised"
        /\ lookups = <<>>
        /\ stderr = <<>>
        /\ chk_pc = "done" => (outcome = "returned" /\ retval = <<0>>)

C1_Witness == return_code = 0 /\ chk_pc = "done" /\ outcome = "returned"

\* C2: for every negative return_code and every outcome of the lookups, CHK
\* raises the driver error, and the error carries the symbolic name of the code
\* when error_map has it and the raw integer when it has not.
C2_NegativeRaisesNamed ==
    (return_code < 0 /\ chk_pc = "done") =>
        /\ outcome = "raised"
        /\ exc.type = "NIDAQmxRuntimeError"
        /\ exc.ident = error_map_get(return_code)

\* C3: for every positive return_code and every outcome of the lookups, CHK
\* never raises, writes a diagnostic to stderr and returns return_code.
C3_PositiveWarnsAndReturns ==
    (return_code > 0 /\ chk_pc = "done") =>
        /\ outcome = "returned"
        /\ retval = <<return_code>>
        /\ Len(stderr) >= 1

\* C4: when every round ended with 'Buffer is too small to fit the string', so
\* that the capacity reached the upper bound, CHK raises NIDAQmxRuntimeError as
\* the binding layer's own error, distinguishable from a driver-reported failure.
C4_ExhaustedBufferRaisesBindingError ==
    (return_code # 0 /\ chk_pc = "done" /\ buf_size >= max_buf_size) =>
        /\ outcome = "raised"
        /\ exc.type = "NIDAQmxRuntimeError"
        /\ exc.origin # "driver"

(***************************************************************************)
(* Claims about make_pattern                                               *)
(***************************************************************************)

\* All paths of one call are bare tokens, or all are multi-segment
SameDepth(ps) ==
    \A i, j \in 1..Len(ps) :
        ("/" \in Range(StripSlash(ps[i]))) = ("/" \in Range(StripSlash(ps[j])))

RECURSIVE SingleDepth(_)
\* The input keeps the depth convention in the top-level call and in every
\* recursive call made for a prefix with several remainders
SingleDepth(ps) ==
    /\ SameDepth(ps)
    /\ \A k \in DOMAIN Group(ps).patterns :
          (k # <<>> /\ Cardinality(Group(ps).patterns[k]) >= 2) =>
              SingleDepth(SortedStrs(Group(ps).patterns[k]))

\* The top-level call took the fallback of line 123: a nested call returned None
FallbackTaken(ps, ord) ==
    /\ make_pattern(ps, FALSE, ord).kind = "None"
    /\ make_pattern(ps, TRUE, ord).kind = "str"

DevicePrefixes == {<<"D">>, <<"E">>}
ChannelPrefixes == {<<"a">>, <<"b">>}
\* the largest channel number of the claims' quantifiers
MaxChannel == 11

\* the path 'D/c<i>'
ChannelPath(D, c, i) == D \o <<"/">> \o c \o StrOf(i)

\* C5: the paths 'D/c<i>' for i in a contiguous run a..b of at least two
\* integers, given in any order, compress to exactly 'D/c<a>:<b>'.
C5_ContiguousRunCompresses ==
    mp_pc = "called" =>
        LET given == Range(paths)
        IN  \A D \in DevicePrefixes, c \in ChannelPrefixes :
              \A a \in 0..MaxChannel : \A b \in (a + 1)..MaxChannel :
                (/\ Cardinality(given) = b - a + 1
                 /\ given = {ChannelPath(D, c, i) : i \in a..b}) =>
                    result = StrResult(D \o <<"/">> \o c \o StrOf(a) \o <<":">> \o StrOf(b))

\* a run given out of order, and a run that crosses from one digit to two
C5_Witness ==
    /\ mp_pc = "called"
    /\ paths = << <<"D", "/", "a", "3">>, <<"D", "/", "a", "1">>, <<"D", "/", "a", "2">> >>
    /\ result = StrResult(<<"D", "/", "a", "1", ":", "3">>)

RECURSIVE HasGap(_, _)
\* Some branch of the pattern tree has two or more integer suffixes that do
\* not form a contiguous run
HasGap(ps, ord) ==
    LET g == Group(ps)
    IN  \E k \in DOMAIN g.patterns :
            /\ Cardinality(g.patterns[k]) >= 2
            /\ IF k = <<>>
                 THEN /\ \A x \in g.patterns[k] : IntParses(x)
                      /\ ~IsRange(SortedInts(ListOfSet(g.patterns[k], ord)))
                 ELSE HasGap(ListOfSet(g.patterns[k], ord), ord)

\* C6: when some branch has non-contiguous integer suffixes, the top-level
\* call returns exactly the input paths joined by commas.
C6_GapGivesVerbatimInput ==
    (mp_pc = "called" /\ SingleDepth(paths) /\ HasGap(paths, set_order)) =>
        result = Fallback(paths)

\* ps with the elements at i and i + 1 exchanged
SwapAt(ps, i) ==
    [k \in 1..Len(ps) |-> IF k = i THEN ps[i + 1] ELSE IF k = i + 1 THEN ps[i] ELSE ps[k]]

\* C7 as claimed: every permutation of the input, fallback inputs included,
\* gives the same result. Every list is a state and exchanges of neighbours
\* generate all permutations, so the exchanges are what is compared.
C7_OrderIndependent ==
    (mp_pc = "called" /\ SingleDepth(paths)) =>
        \A i \in 1..(Len(paths) - 1) :
            make_pattern(SwapAt(paths, i), TRUE, set_order) = result

\* C7 amended: the result is independent of the input order unless the
\* fallback is taken; the fallback returns the paths joined in the given order.
C7_OrderIndependentUnlessFallback ==
    (mp_pc = "called" /\ SingleDepth(paths)) =>
        \A i \in 1..(Len(paths) - 1) :
            LET q == SwapAt(paths, i)
            IN  IF FallbackTaken(paths, set_order)
                  THEN make_pattern(q, TRUE, set_order) = Fallback(q)
                  ELSE make_pattern(q, TRUE, set_order) = result

\* an input that is not in sorted order and is compressed, not passed through
C7_Witness ==
    /\ mp_pc = "called"
    /\ SingleDepth(paths)
    /\ Len(paths) = 3
    /\ StrLess(paths[2], paths[1])
    /\ KeyOf(paths[1]) # KeyOf(paths[2])
    /\ result.kind = "str"
    /\ ~FallbackTaken(paths, set_order)

\* C8: a top-level call returns a string, never None.
C8_TopLevelNeverNone ==
    mp_pc = "called" => result.kind # "None"

\* The input has a single branch: one non-empty prefix with several remainders
OneBranch(ps) ==
    LET g == Group(ps)
    IN  /\ g.ok
        /\ Cardinality(DOMAIN g.patterns) = 1
        /\ \A k \in DOMAIN g.patterns : k # <<>> /\ Cardinality(g.patterns[k]) >= 2

BranchKey(ps) == CHOOSE k \in DOMAIN Group(ps).patterns : TRUE

\* the recursive sub-pattern of the single branch
SubPattern(ps, ord) ==
    make_pattern(ListOfSet(Group(ps).patterns[BranchKey(ps)], ord), FALSE, ord)

\* the position of the '}' that closes the '{' at position i
ClosingBrace(s, i) ==
    CHOOSE k \in (i + 1)..Len(s) :
        /\ s[k] = "}"
        /\ BraceDepth(s, k) = BraceDepth(s, i) + 1
        /\ \A j \in (i + 1)..(k - 1) : ~(s[j] = "}" /\ BraceDepth(s, j) = BraceDepth(s, i) + 1)

\* C9 as claimed: a sub-pattern is braced only when it has several parts at
\* its own level; a single part that contains a braced group is not braced.
C9_BracedOnlyForSeveralParts ==
    (mp_pc = "called" /\ OneBranch(paths) /\ SubPattern(paths, set_order).kind = "str") =>
        LET sub == SubPattern(paths, set_order).val
        IN  result.val = WithPrefix(Group(paths).flag, BranchKey(paths),
                                    IF TopLevelCommas(sub) # {}
                                      THEN <<"{">> \o sub \o <<"}">> ELSE sub)

\* C9 amended: a sub-pattern is braced exactly when its text contains a
\* comma anywhere, at its own level or inside a braced group further down; and
\* in every compressed result each brace pair encloses a comma.
C9_BracedIffComma ==
    /\ (mp_pc = "called" /\ OneBranch(paths) /\ SubPattern(paths, set_order).kind = "str") =>
          LET sub == SubPattern(paths, set_order).val
          IN  result.val = WithPrefix(Group(paths).flag, BranchKey(paths),
                                      IF "," \in Range(sub)
                                        THEN <<"{">> \o sub \o <<"}">> ELSE sub)
    /\ (mp_pc = "called" /\ result.kind = "str" /\ ~FallbackTaken(paths, set_order)) =>
          \A i \in 1..Len(result.val) :
              result.val[i] = "{" =>
                  \E j \in (i + 1)..(ClosingBrace(result.val, i) - 1) : result.val[j] = ","

\* a single part with a braced group inside, braced again by the level above
C9_Witness ==
    /\ mp_pc = "called"
    /\ paths = << <<"E", "/", "p", "/", "a", "1">>, <<"E", "/", "p", "/", "b", "1">> >>
    /\ result = StrResult(<<"E", "/", "{", "p", "/", "{", "a", "1", ",", "b", "1", "}", "}">>)

\* the paths of ps filed under key k, in their order
PathsOf(ps, k) == SelectSeq(ps, LAMBDA p : KeyOf(p) = k)

\* the keys in ascending order
Ascending(S) ==
    CHOOSE seq \in [1..Cardinality(S) -> S] :
        \A i, j \in 1..Cardinality(S) : i < j => StrLess(seq[i], seq[j])

\* C10: with several top-level prefixes and no fallback, the result is one
\* part per prefix, in ascending order of the prefixes, each part being the
\* compression of that prefix's own paths.
C10_OnePartPerPrefix ==
    (/\ mp_pc = "called"
     /\ SingleDepth(paths)
     /\ result.kind = "str"
     /\ ~FallbackTaken(paths, set_order)
     /\ Cardinality(DOMAIN Group(paths).patterns) >= 2) =>
        LET keys == Ascending(DOMAIN Group(paths).patterns)
        IN  result.val = Join(<<",">>, [i \in 1..Len(keys) |->
                                  make_pattern(PathsOf(paths, keys[i]), TRUE, set_order).val])

\* a compressed range of one device next to a channel of another one
C10_Witness ==
    /\ mp_pc = "called"
    /\ paths = << <<"E", "/", "a", "9">>, <<"D", "/", "a", "2">>, <<"D", "/", "a", "1">> >>
    /\ result = StrResult(<<"D", "/", "a", "1", ":", "2", ",", "E", "/", "a", "9">>)

\* the parts of s between the commas that stand outside every brace pair
TopLevelParts(s) ==
    LET cuts == TopLevelCommas(s)
        starts == {1} \cup {j + 1 : j \in cuts}
    IN  {SubSeq(s, b, (CHOOSE e \in (cuts \cup {Len(s) + 1}) :
                          e >= b /\ \A c \in cuts : c >= b => c >= e) - 1) : b \in starts}

\* the position where the digits that end before position i begin
DigitsStart(s, i) ==
    CHOOSE b \in 1..i :
        /\ \A j \in b..(i - 1) : IsDigit(s[j])
        /\ (b = 1 \/ ~IsDigit(s[b - 1]))

RECURSIVE Expand(_)
\* The set of paths a pattern denotes: the empty pattern denotes no path, commas are unions, 'x{p}' is x put
\* before every path of p, 'x<a>:<b>' is x followed by every integer of a..b
Expand(s) ==
    IF s = <<>> THEN {}
    ELSE IF TopLevelCommas(s) # {}
      THEN UNION {Expand(part) : part \in TopLevelParts(s)}
    ELSE IF "{" \in Range(s)
      THEN LET i == CHOOSE k \in 1..Len(s) : s[k] = "{" /\ \A j \in 1..(k - 1) : s[j] # "{"
           IN  {SubSeq(s, 1, i - 1) \o x : x \in Expand(SubSeq(s, i + 1, Len(s) - 1))}
    ELSE IF ":" \in Range(s)
      THEN LET i == CHOOSE k \in 1..Len(s) : s[k] = ":"
               b == DigitsStart(s, i)
           IN  {SubSeq(s, 1, b - 1) \o StrOf(n) :
                    n \in IntOf(SubSeq(s, b, i - 1))..IntOf(SubSeq(s, i + 1, Len(s)))}
    ELSE {s}

\* C11: for every input that keeps the depth convention, expanding the
\* returned pattern yields exactly the set of input paths: none lost, added
\* or renamed.
C11_RoundTrip ==
    (mp_pc = "called" /\ SingleDepth(paths) /\ result.kind = "str") =>
        Expand(result.val) = Range(paths)

\* C12: a call given both a bare token and a multi-segment path, in whatever
\* order, fails its assertion.
C12_MixedDepthAsserts ==
    (mp_pc = "called" /\ ~SameDepth(paths)) => result.kind = "AssertionError"

\* C14 as claimed: appending a path the list already holds never changes the result.
C14_DuplicatesCollapse ==
    mp_pc = "called" =>
        \A p \in Range(paths) : make_pattern(Append(paths, p), TRUE, set_order) = result

\* C14 amended: appending a path the list already holds does not change the
\* result unless the fallback is taken; the fallback returns the paths as
\* given, the repeated one included.
C14_DuplicatesCollapseUnlessFallback ==
    mp_pc = "called" =>
        \A p \in Range(paths) :
            LET q == Append(paths, p)
            IN  IF FallbackTaken(paths, set_order)
                  THEN make_pattern(q, TRUE, set_order) = StrResult(Join(<<",">>, q))
                  ELSE make_pattern(q, TRUE, set_order) = result

\* a list that repeats a path and is compressed as if it did not
C14_Witness ==
    /\ mp_pc = "called"
    /\ paths = << <<"D", "/", "a", "1">>, <<"D", "/", "a", "2">>, <<"D", "/", "a", "1">> >>
    /\ result = StrResult(<<"D", "/", "a", "1", ":", "2">>)

\* every prefix of the call has exactly one remainder
SingleRemainders(ps) ==
    \A k \in DOMAIN Group(ps).patterns : Cardinality(Group(ps).patterns[k]) = 1

\* the prefix k followed by its only remainder, with '/' between them when multi is TRUE
Verbatim(ps, k, multi) ==
    LET x == CHOOSE y \in Group(ps).patterns[k] : TRUE
    IN  IF multi THEN k \o <<"/">> \o x ELSE k \o x

\* C19: a prefix with exactly one remainder is emitted as the prefix and
\* that remainder unchanged, with '/' between them when the call's paths are
\* multi-segment and with nothing between them when they are bare tokens.
C19_SingleRemainderVerbatim ==
    (mp_pc = "called" /\ paths # <<>> /\ SameDepth(paths) /\ SingleRemainders(paths)) =>
        LET keys == Ascending(DOMAIN Group(paths).patterns)
            multi == "/" \in Range(StripSlash(paths[1]))
        IN  result = StrResult(Join(<<",">>,
                         [i \in 1..Len(keys) |-> Verbatim(paths, keys[i], multi)]))

\* a three-segment path alone comes back as it is, and a bare token gets no separator
C19_Witness ==
    /\ mp_pc = "called"
    /\ \/ /\ paths = << <<"E", "/", "p", "/", "a", "1">> >>
          /\ result = StrResult(<<"E", "/", "p", "/", "a", "1">>)
       \/ /\ paths = << <<"3">> >>
          /\ result = StrResult(<<"3">>)

\* C13: when the driver returns a positive status to a wrapped operation
\* that reports success_status, the operation does not raise and reports
\* success_status True.
C13_WarningIsSuccess ==
    (return_code > 0 /\ chk_pc = "finished") => success_status = <<TRUE>>

\* the lookups of the log made by DAQmxGetExtendedErrorInfo: one per round
Rounds == {i \in 1..Len(lookups) : lookups[i].fn = "DAQmxGetExtendedErrorInfo"}

\* the capacities 3000 * 2^k below the loop bound
Capacities == {default_buf_size * 2^k : k \in 0..8}

\* the capacities follow the doubling protocol up to the current state
CapacityProtocol ==
    /\ \A i \in 1..Len(lookups) :
          /\ lookups[i].cap \in Capacities
          /\ lookups[i].cap < max_buf_size
    /\ Len(lookups) >= 1 => lookups[1].cap = default_buf_size
    /\ \A i \in 1..(Len(lookups) - 1) :
          lookups[i + 1].cap = IF lookups[i].res = "too_small"
                                 THEN 2 * lookups[i].cap
                                 ELSE lookups[i].cap
    /\ Cardinality(Rounds) <= 9
    /\ return_code = 0 => lookups = <<>>

\* C16: within one CHK call the buffer capacities used are 3000 * 2^k
\* starting at 3000, the capacity doubles only after a 'buffer too small'
\* failure, every capacity used is below 1,000,000, at most 9 rounds are made,
\* and CHK comes to an end whatever the lookups do.
C16_BoundedDoubling == []CapacityProtocol /\ <>(chk_pc = "done")

\* nine rounds that all failed with 'buffer too small', and the loop has ended
C16_Witness ==
    /\ chk_pc = "done"
    /\ Cardinality(Rounds) = 9
    /\ lookups[Len(lookups)].cap = 768000
    /\ buf_size = 1536000

\* C17: in every round DAQmxGetExtendedErrorInfo is called first;
\* DAQmxGetErrorString is called in that round exactly when the extended
\* lookup returned a non-zero status, next and with the same capacity; a
\* 'buffer too small' failure of either lookup is followed by a new round
\* that starts with the extended lookup at twice the capacity.
C17_ExtendedFirstGenericOnNonZero ==
    /\ Len(lookups) >= 1 => lookups[1].fn = "DAQmxGetExtendedErrorInfo"
    /\ \A i \in 2..Len(lookups) :
          /\ lookups[i].fn = "DAQmxGetErrorString" <=>
                 (lookups[i - 1].fn = "DAQmxGetExtendedErrorInfo" /\ lookups[i - 1].res = "nonzero")
          /\ lookups[i].fn = "DAQmxGetErrorString" => lookups[i].cap = lookups[i - 1].cap
          /\ lookups[i].fn = "DAQmxGetExtendedErrorInfo" =>
                 (lookups[i - 1].res = "too_small" /\ lookups[i].cap = 2 * lookups[i - 1].cap)
    /\ chk_pc = "gen" <=>
          (/\ Len(lookups) >= 1
           /\ lookups[Len(lookups)].fn = "DAQmxGetExtendedErrorInfo"
           /\ lookups[Len(lookups)].res = "nonzero")
    /\ (Len(lookups) >= 1 /\ lookups[Len(lookups)].res = "too_small") =>
          (/\ buf_size = 2 * lookups[Len(lookups)].cap
           /\ chk_pc = "ext" => buf_size < max_buf_size)

\* a generic lookup that found the buffer too small, and the round after it
C17_Witness ==
    /\ Len(lookups) = 4
    /\ lookups[1].res = "nonzero"
    /\ lookups[2] = [fn |-> "DAQmxGetErrorString", cap |-> 3000, res |-> "too_small"]
    /\ lookups[3] = [fn |-> "DAQmxGetExtendedErrorInfo", cap |-> 6000, res |-> "nonzero"]
    /\ lookups[4] = [fn |-> "DAQmxGetErrorString", cap |-> 6000, res |-> "zero"]

\* C18: a RuntimeError of either lookup without the 'buffer too small'
\* text ends CHK with NIDAQmxRuntimeError: it is the last lookup, the buffer
\* is not grown, nothing is written to stderr, and only 'buffer too small' is
\* followed by another lookup round.
C18_OtherErrorsNotRetried ==
    /\ \A i \in 1..(Len(lookups) - 1) : lookups[i].res # "other"
    /\ (Len(lookups) >= 1 /\ lookups[Len(lookups)].res = "other") =>
          /\ chk_pc \in {"done", "finished"}
          /\ outcome = "raised"
          /\ exc.type = "NIDAQmxRuntimeError"
          /\ exc.origin = "lookup"
          /\ buf_size = lookups[Len(lookups)].cap
          /\ stderr = <<>>
          /\ retval = <<>>

\* the generic lookup of the second round raised another RuntimeError
C18_Witness ==
    /\ Len(lookups) = 3
    /\ lookups[3] = [fn |-> "DAQmxGetErrorString", cap |-> 6000, res |-> "other"]
    /\ outcome = "raised"

\* C15: register_signal_event accepts a callback with the documented
\* prototype func(task, signalID, cb_data): given such a callback and a valid
\* signal name it does not raise ValueError and goes on to register the
\* callback with the driver.
C15_DocumentedSignalCallbackAccepted ==
    (/\ last_call.op = "register_signal_event"
     /\ last_call.func = "f3"
     /\ last_call.signal \in signalID_map) =>
        /\ last_call.exc # "ValueError"
        /\ \E i \in 1..Len(last_call.calls) :
              /\ last_call.calls[i].fn = "DAQmxRegisterSignalEvent"
              /\ last_call.calls[i].c_func.func = "f3"

\* the three registration methods
RegisterOps == {"register_every_n_samples_event", "register_done_event", "register_signal_event"}

\* the cache of a kind
CacheOf(op) ==
    CASE op = "register_every_n_samples_event" -> register_every_n_samples_event_cache
      [] op = "register_done_event" -> register_done_event_cache
      [] op = "register_signal_event" -> register_signal_event_cache

\* the driver entry point of a kind
EntryPoint(op) ==
    CASE op = "register_every_n_samples_event" -> "DAQmxRegisterEveryNSamplesEvent"
      [] op = "register_done_event" -> "DAQmxRegisterDoneEvent"
      [] op = "register_signal_event" -> "DAQmxRegisterSignalEvent"

\* the callback passes the signature test of its kind
PassesSignatureTest(op, func) ==
    IF op = "register_done_event"
      THEN getargspec(func) = [nargs |-> 3, defaults |-> <<None>>]
      ELSE getargspec(func).nargs = 4

\* the last call replaced a cached callback of kind op by an acceptable one,
\* and the driver did not fail the unregistration
Replaces(op) ==
    /\ last_call.op = op
    /\ last_call.func # None
    /\ last_call.before # NULL
    /\ PassesSignatureTest(op, last_call.func)
    /\ op = "register_signal_event" => last_call.signal \in signalID_map
    /\ ~(last_call.calls # <<>> /\ last_call.calls[1].outcome = "raises")

\* the last call unregistered first, registered the new callback next, and
\* when it returned the cache of the kind holds the new wrapper
UnregisteredThenRegistered(op) ==
    /\ Len(last_call.calls) = 2
    /\ last_call.calls[1].fn = EntryPoint(op)
    /\ last_call.calls[1].c_func = NULL
    /\ last_call.calls[2].fn = EntryPoint(op)
    /\ last_call.calls[2].c_func = [type |-> channel_type, func |-> last_call.func]
    /\ last_call.exc = "none" => CacheOf(op) = [type |-> channel_type, func |-> last_call.func]

\* C20: for each of the three event kinds, registering a callback while one
\* of that kind is cached first issues the Register* call with a NULL
\* callback and then the registration of the new callback, and on return the
\* cache of that kind holds the new wrapper.
C20_ReplaceUnregistersFirst ==
    \A op \in RegisterOps : Replaces(op) => UnregisteredThenRegistered(op)

\* C22: register_every_n_samples_event and register_done_event called with
\* a function of the wrong signature raise ValueError, issue no driver call
\* and leave the cache of their kind as it was.
C22_WrongSignatureChangesNothing ==
    \A op \in {"register_every_n_samples_event", "register_done_event"} :
        (/\ last_call.op = op
         /\ last_call.func # None
         /\ ~PassesSignatureTest(op, last_call.func)
         /\ channel_type \in ChannelTypes) =>
            /\ last_call.exc = "ValueError"
            /\ last_call.calls = <<>>
            /\ CacheOf(op) = last_call.before

\* C23: after any sequence of register_done_event and
\* register_every_n_samples_event calls the cache of a kind holds exactly the
\* callback the driver holds for that kind: None when none is registered,
\* the registered wrapper otherwise.
C23_CacheMatchesDriver ==
    /\ register_every_n_samples_event_cache = registered.every_n
    /\ register_done_event_cache = registered.done

\* the methods that read or write the pause trigger type
PauseOps == {"set_pause_trigger", "set_pause_trigger_source", "set_pause_trigger_when"}

\* the driver routine of a pause trigger type for the method op
PauseRoutine(op, type) ==
    IF op = "set_pause_trigger_source" THEN SrcRoutine(type) ELSE WhenRoutine(type)

\* one step of the pause trigger protocol
PauseProtocolStep ==
    /\ last_call'.op \in {"set_pause_trigger_source", "set_pause_trigger_when"} =>
          /\ pause_trigger_type' = pause_trigger_type
          /\ last_call'.calls # <<>> =>
                /\ pause_trigger_type \in routine_map
                /\ Len(last_call'.calls) = 1
                /\ last_call'.calls[1].fn = PauseRoutine(last_call'.op, pause_trigger_type)
          /\ pause_trigger_type = None =>
                (last_call'.exc = "TypeError" /\ last_call'.calls = <<>>)
    /\ last_call'.op = "set_pause_trigger" =>
          IF last_call'.arg \in trigger_type_map
            THEN pause_trigger_type' = last_call'.arg
            ELSE /\ last_call'.exc = "ValueError"
                 /\ last_call'.calls = <<>>
                 /\ pause_trigger_type' = pause_trigger_type
    /\ last_call'.op \notin PauseOps => pause_trigger_type' = pause_trigger_type

IoTypeByChannelType ==
    /\ channel_io_type = "input" <=>
          channel_type \in {<<"A", "I">>, <<"D", "I">>, <<"C", "I">>}
    /\ channel_io_type = "output" <=>
          channel_type \in {<<"A", "O">>, <<"D", "O">>, <<"C", "O">>}
    /\ channel_io_type = "TypeError" <=> channel_type = NoChannelType
    /\ last_call.op = "channel_io_type" =>
          IF channel_type = NoChannelType
            THEN last_call.exc = "TypeError" /\ last_call.ret = <<>>
            ELSE last_call.exc = "none" /\ last_call.ret = <<channel_io_type>>

\* one step leaves a channel type that is set alone, and _set_channel_type(t)
\* sets, keeps or refuses as the type before it demands
WriteOnceStep ==
    /\ channel_type # NoChannelType => channel_type' = channel_type
    /\ (last_call'.op = "_set_channel_type" /\ last_call'.arg \in ChannelTypes) =>
          /\ channel_type = NoChannelType =>
                (channel_type' = last_call'.arg /\ last_call'.exc = "none")
          /\ channel_type = last_call'.arg =>
                (channel_type' = channel_type /\ last_call'.exc = "none")
          /\ (channel_type # NoChannelType /\ channel_type # last_call'.arg) =>
                (channel_type' = channel_type /\ last_call'.exc = "ValueError")

\* C24: channel_type is write-once: _set_channel_type(t) sets it only when
\* it is None, leaves it when it equals t, raises ValueError and leaves it
\* when it differs, so it never changes once set; channel_io_type is 'input'
\* exactly for AI, DI, CI, 'output' for AO, DO, CO, and raises TypeError
\* while channel_type is None.
C24_ChannelTypeWriteOnce == []IoTypeByChannelType /\ [][WriteOnceStep]_vars

\* a second, different channel type was refused
C24_Witness ==
    /\ channel_type = <<"C", "I">>
    /\ last_call.op = "_set_channel_type"
    /\ last_call.arg = <<"D", "O">>
    /\ last_call.exc = "ValueError"

\* C25: over any sequence of clear() and __del__ calls on one task
\* DAQmxClearTask is issued at most once, and not at all for a zero handle,
\* and a non-zero status of it gives a warning and no exception.
C25_ClearedAtMostOnce ==
    /\ Len(clear_task_calls) <= 1
    /\ value = 0 => clear_task_calls = <<>>
    /\ last_call.op = "clear" => last_call.exc = "none"
    /\ Len(warned) = Cardinality({i \in 1..Len(clear_task_calls) : clear_task_calls[i] # 0})

\* C26: AnalogInputTask.read and DigitalTask.read agree on short reads:
\* when the driver reports fewer samples than were asked for, the array
\* returned holds exactly samples_read samples per channel, cut along the
\* sample axis of the fill mode, and otherwise it is the full array.
C26_ShortReadsTruncated ==
    (/\ data_pc = "called"
     /\ returned.op \in {"AnalogInputTask.read", "DigitalTask.read"}
     /\ returned.exc = "none") =>
        returned.data =
            IF layout = "group_by_scan_number"
              THEN <<Min(returned.samples_read, samples_per_channel), number_of_channels>>
              ELSE <<number_of_channels, Min(returned.samples_read, samples_per_channel)>>

\* what _reshape_data owes its caller; a 1-D array whose length the channel
\* count does not divide is refused when divisible_only is TRUE
ReshapeContract(divisible_only) ==
    (data_pc = "called" /\ returned.op = "_reshape_data") =>
        LET c == number_of_channels
            gbs == layout = "group_by_scan_number"
        IN  /\ c = 0 => returned.exc = "ValueError"
            /\ (c > 0 /\ Len(shape) = 1) =>
                  IF divisible_only /\ shape[1] % c # 0
                    THEN returned.exc = "ValueError"
                    ELSE /\ returned.exc = "none"
                         /\ returned.samples = shape[1] \div c
                         /\ returned.data = IF gbs THEN <<returned.samples, c>>
                                                   ELSE <<c, returned.samples>>
            /\ (c > 0 /\ Len(shape) = 2) =>
                  IF (IF gbs THEN shape[2] ELSE shape[1]) = c
                    THEN /\ returned.exc = "none"
                         /\ returned.samples = IF gbs THEN shape[1] ELSE shape[2]
                         /\ returned.data = shape
                    ELSE returned.exc = "AssertionError"
            /\ returned.exc = "none" => returned.samples * c = Size(returned.data)

\* C27 as claimed: every 1-D array of n elements is returned with
\* samples_per_channel = n // c.
C27_ReshapeAnyLength == ReshapeContract(FALSE)

\* C27 amended: _reshape_data raises ValueError for c = 0; a 1-D array of n
\* elements with c dividing n is returned shaped (n // c, c) or (c, n // c)
\* with samples_per_channel = n // c, and with c not dividing n the reshape
\* raises ValueError; a 2-D array must have c on its channel axis and gives
\* the length of the other axis; whenever it returns, samples_per_channel * c
\* is the number of elements returned.
C27_ReshapeDivisibleLength == ReshapeContract(TRUE)

\* six samples of three channels, grouped by channel
C27_Witness ==
    /\ data_pc = "called"
    /\ returned.op = "_reshape_data"
    /\ shape = <<6>>
    /\ number_of_channels = 3
    /\ layout = "group_by_channel"
    /\ returned.data = <<3, 2>>
    /\ returned.samples = 2

RECURSIVE Recursed(_, _, _)
\* the recursive calls the loop of one make_pattern call makes, in order:
\* the prefix and the list handed down; the loop ends at a subpattern that
\* is not a string and at a numeric branch that returns or raises
Recursed(keys, g, ord) ==
    IF keys = <<>> THEN <<>>
    ELSE
      LET prefix == Head(keys)
          lst == ListOfSet(g.patterns[prefix], ord)
      IN  IF Len(lst) <= 1 THEN Recursed(Tail(keys), g, ord)
          ELSE IF prefix # <<>>
            THEN <<[prefix |-> prefix, lst |-> lst]>> \o
                 (IF make_pattern(lst, FALSE, ord).kind = "str"
                    THEN Recursed(Tail(keys), g, ord) ELSE <<>>)
          ELSE IF NumericPart(lst).kind = "str" THEN Recursed(Tail(keys), g, ord)
          ELSE <<>>

\* the recursive calls of make_pattern(ps)
RecursedBy(ps, ord) ==
    IF Group(ps).ok THEN Recursed(SortedKeys(Group(ps).patterns), Group(ps), ord) ELSE <<>>

\* the largest number of a non-empty set of naturals
MaxOf(S) == CHOOSE m \in S : \A n \in S : n <= m

RECURSIVE Depth(_, _)
\* how deep the calls below make_pattern(ps) nest
Depth(ps, ord) ==
    LET rc == RecursedBy(ps, ord)
    IN  IF rc = <<>> THEN 0
        ELSE 1 + MaxOf({Depth(rc[i].lst, ord) : i \in 1..Len(rc)})

\* x is what is left of some path of ps once its leading '/', the prefix and
\* the '/' after the prefix of a multi-segment path are removed
CutFrom(ps, prefix, x) ==
    \E i \in 1..Len(ps) :
        LET q == StripSlash(ps[i])
        IN  /\ q = (IF "/" \in Range(q) THEN prefix \o <<"/">> \o x ELSE prefix \o x)
            /\ Len(x) < Len(ps[i])

RECURSIVE Shrinks(_, _)
\* every recursive call below make_pattern(ps) is made under a non-empty
\* prefix with at least two remainders, each cut from a longer path
Shrinks(ps, ord) ==
    LET rc == RecursedBy(ps, ord)
    IN  \A i \in 1..Len(rc) :
            /\ rc[i].prefix # <<>>
            /\ Len(rc[i].lst) >= 2
            /\ \A j \in 1..Len(rc[i].lst) : CutFrom(ps, rc[i].prefix, rc[i].lst[j])
            /\ Shrinks(rc[i].lst, ord)

\* C28: make_pattern comes to an end on every input: each recursive call
\* receives remainders strictly shorter than the paths they were cut from,
\* recursion happens only under a non-empty prefix with at least two
\* remainders, and the calls nest no deeper than the longest path is long.
C28_RecursionShrinks ==
    mp_pc = "called" =>
        /\ result.kind \in {"str", "None", "AssertionError", "ValueError"}
        /\ Shrinks(paths, set_order)
        /\ paths # <<>> => Depth(paths, set_order) <= MaxOf({Len(paths[i]) : i \in 1..Len(paths)})
        /\ paths = <<>> => Depth(paths, set_order) = 0

\* two calls nested below the first: E, then p, then the bare tokens
C28_Witness ==
    /\ mp_pc = "called"
    /\ paths = << <<"E", "/", "p", "/", "a", "1">>, <<"E", "/", "p", "/", "b", "1">> >>
    /\ Depth(paths, set_order) = 2
    /\ result.kind = "str"

====
